---------------------------- MODULE Spec2Model ----------------------------
(***************************************************************************)
(* A model of libcellml's Validator (src/src/validator.cpp).               *)
(*                                                                         *)
(* A string is a sequence of one-character strings, so that the lexical    *)
(* functions (std::stod, isNotWhitespace) are computed character by        *)
(* character.  An entity is identified by its position in the entity tree. *)
(* An error is a record [kind, desc, subject]; desc is the message (a tag  *)
(* for the fixed text, plus the strings the code concatenates into it).    *)
(***************************************************************************)
EXTENDS Integers, Sequences, FiniteSets, TLC

VARIABLES
    model,                  \* the ModelPtr handed to validateModel
    errors,                 \* Logger's error list of the validator instance
    pc,                     \* position inside validateModel
    i,                      \* loop index of the running loop of validateModel
    componentNames,         \* validateModel locals (lines 146-148)
    componentRefs,
    componentImportSources,
    unitsNames,             \* validateModel locals (lines 213-215)
    unitsRefs,
    unitsImportSources,
    origin,                 \* history: for each error, the step that added it
    calls,                  \* history: validateComponent/validateUnits calls of this run
    cleanMathml,            \* history: the trees handed to parseMathML in this run
    prevErrors              \* history: the error list at the previous return

vars == <<model, errors, pc, i, componentNames, componentRefs,
          componentImportSources, unitsNames, unitsRefs, unitsImportSources,
          origin, calls, cleanMathml, prevErrors>>

-----------------------------------------------------------------------------
(* Bounds of the checked inputs.                                           *)

MaxComponents == 3
MaxUnits == 3
MaxStrLen == 2

-----------------------------------------------------------------------------
(* Sequence helpers.                                                       *)

Range(s) == {s[k] : k \in 1..Len(s)}

RECURSIVE SeqsUpTo(_, _)
SeqsUpTo(S, n) ==
    IF n = 0 THEN {<<>>}
    ELSE LET shorter == SeqsUpTo(S, n - 1)
         IN  shorter \cup {Append(s, x) : s \in {t \in shorter : Len(t) = n - 1}, x \in S}

RECURSIVE Flatten(_)
Flatten(ss) == IF ss = <<>> THEN <<>> ELSE Head(ss) \o Flatten(Tail(ss))

\* std::find(v.begin(), v.end(), x) - v.begin(): the 0-based index of the first
\* occurrence of x, or v.size() when there is none.
RECURSIVE FindFrom(_, _, _)
FindFrom(v, x, k) ==
    IF k > Len(v) THEN Len(v)
    ELSE IF v[k] = x THEN k - 1
    ELSE FindFrom(v, x, k + 1)

Find(v, x) == FindFrom(v, x, 1)

\* std::find(...) != v.end()
Found(v, x) == Find(v, x) # Len(v)

-----------------------------------------------------------------------------
(* Strings.                                                                *)

Empty == <<>>

s_a == <<"a">>
s_b == <<"b">>
s_c == <<"c">>
s_d == <<"d">>
s_m == <<"m">>
s_u == <<"u">>
s_x == <<"x">>
s_y == <<"y">>
s_t == <<"t">>
s_h1 == <<"h", "1">>
s_h2 == <<"h", "2">>
s_r1 == <<"r", "1">>
s_r2 == <<"r", "2">>
s_second == <<"s", "e", "c", "o", "n", "d">>
s_public == <<"p", "u", "b", "l", "i", "c">>
s_private == <<"p", "r", "i", "v", "a", "t", "e">>
s_none == <<"n", "o", "n", "e">>
s_public_and_private ==
    <<"p", "u", "b", "l", "i", "c", "_", "a", "n", "d", "_", "p", "r", "i", "v", "a", "t", "e">>

\* standardUnitToStringTemp, in the order of the StandardUnit enumeration.
standardUnitToStringTemp ==
    << <<"a","m","p","e","r","e">>,
       <<"b","e","c","q","u","e","r","e","l">>,
       <<"c","a","n","d","e","l","a">>,
       <<"c","e","l","s","i","u","s">>,
       <<"c","o","u","l","o","m","b">>,
       <<"d","i","m","e","n","s","i","o","n","l","e","s","s">>,
       <<"f","a","r","a","d">>,
       <<"g","r","a","m">>,
       <<"g","r","a","y">>,
       <<"h","e","n","r","y">>,
       <<"h","e","r","t","z">>,
       <<"j","o","u","l","e">>,
       <<"k","a","t","a","l">>,
       <<"k","e","l","v","i","n">>,
       <<"k","i","l","o","g","r","a","m">>,
       <<"l","i","t","e","r">>,
       <<"l","i","t","r","e">>,
       <<"l","u","m","e","n">>,
       <<"l","u","x">>,
       <<"m","e","t","e","r">>,
       <<"m","e","t","r","e">>,
       <<"m","o","l","e">>,
       <<"n","e","w","t","o","n">>,
       <<"o","h","m">>,
       <<"p","a","s","c","a","l">>,
       <<"r","a","d","i","a","n">>,
       s_second,
       <<"s","i","e","m","e","n","s">>,
       <<"s","i","e","v","e","r","t">>,
       <<"s","t","e","r","a","d","i","a","n">>,
       <<"t","e","s","l","a">>,
       <<"v","o","l","t">>,
       <<"w","a","t","t">>,
       <<"w","e","b","e","r">> >>

\* The vector assembled at lines 362-365 (and again at 603-606).
standardUnitNames == standardUnitToStringTemp

Digits == {"0", "1", "2", "3", "4", "5", "6", "7", "8", "9"}

\* The characters of " \t\n\v\f\r" (line 656); std::isspace accepts the same six.
\* The vertical tab has no TLA+ escape and is written "VT".
WhitespaceChars == {" ", "\t", "\n", "VT", "\f", "\r"}

\* Validator::ValidatorImpl::isNotWhitespace: find_first_not_of(...) != npos.
isNotWhitespace(input) == \E k \in 1..Len(input) : input[k] \notin WhitespaceChars

RECURSIVE SkipWhitespace(_)
SkipWhitespace(s) ==
    IF s # <<>> /\ Head(s) \in WhitespaceChars THEN SkipWhitespace(Tail(s)) ELSE s

SkipSign(s) == IF s # <<>> /\ Head(s) \in {"+", "-"} THEN Tail(s) ELSE s

Lower(ch) == CASE ch = "I" -> "i" [] ch = "N" -> "n" [] ch = "F" -> "f"
               [] ch = "A" -> "a" [] OTHER -> ch

HasPrefixNoCase(s, p) ==
    /\ Len(s) >= Len(p)
    /\ \A k \in 1..Len(p) : Lower(s[k]) = p[k]

\* std::stod(input) converts: strtod skips leading white space, takes an optional
\* sign and then the longest prefix that is a decimal number (digits with an
\* optional point, at least one digit), "inf" or "nan"; what follows the prefix is
\* ignored.  With no such prefix std::invalid_argument is thrown.  (A magnitude
\* outside the range of double throws std::out_of_range; it needs more than the
\* MaxStrLen + 1 characters of the strings checked here.)
StodConverts(input) ==
    LET r == SkipSign(SkipWhitespace(input))
    IN  \/ Len(r) >= 1 /\ r[1] \in Digits
        \/ Len(r) >= 2 /\ r[1] = "." /\ r[2] \in Digits
        \/ HasPrefixNoCase(r, <<"i", "n", "f">>)
        \/ HasPrefixNoCase(r, <<"n", "a", "n">>)

\* Validator::catchDoubleConversionError: TRUE iff std::stod throws.
catchDoubleConversionError(input) == ~ StodConverts(input)

-----------------------------------------------------------------------------
(* Errors: Error::setKind, setDescription and the subject setters.         *)

NoSubject == <<"none">>
ModelSubject == <<"model">>
ComponentSubject(c) == <<"component", c>>
ComponentImportSubject(c) == <<"import", "component", c>>
ModelUnitsSubject(u) == <<"units", "model", u>>
ModelUnitsImportSubject(u) == <<"import", "units", u>>
ComponentUnitsSubject(c, u) == <<"units", "component", c, u>>
VariableSubject(c, v) == <<"variable", c, v>>

\* The fixed text of each description (the names the code splices in are the
\* error's args).
MsgModelName ==
    "Model does not have a valid name attribute."
MsgComponentRef ==
    "Imported component does not have a valid component_ref attribute."
MsgComponentHref ==
    "Import of component does not have a valid locator xlink:href attribute."
MsgComponentDuplicateImport ==
    "Model contains multiple imported components from the same source with the same component_ref attribute."
MsgComponentDuplicateName ==
    "Model contains multiple components with the name."
MsgUnitsRef ==
    "Imported units does not have a valid units_ref attribute."
MsgUnitsHref ==
    "Import of units does not have a valid locator xlink:href attribute."
MsgUnitsDuplicateImport ==
    "Model contains multiple imported units from the same source with the same units_ref attribute."
MsgUnitsDuplicateName ==
    "Model contains multiple units with the name."
MsgComponentName ==
    "Component does not have a valid name attribute."
MsgUnitsName ==
    "Units does not have a valid name attribute."
MsgStandardUnit ==
    "Units is named a protected standard unit name."
MsgVariableName ==
    "Variable does not have a valid name attribute."
MsgVariableUnits ==
    "Variable does not have a valid units attribute."
MsgVariableInterface ==
    "Variable has an invalid interface attribute value."
MsgInitialValue ==
    "Variable has an invalid initial value."
MsgNoRoot ==
    "Could not get a valid XML root node from the math."
MsgRootType ==
    "Math root node is of invalid type."
MsgBvarCollision ==
    "Math contains a bvar ci element that is already a variable name."
MsgCiNotVariable ==
    "MathML ci element has child text which does not correspond with any variable names and is not a variable defined within a bvar element."
MsgCnNotNumber ==
    "MathML cn element has a value which cannot be converted to a real number."
MsgWhitespaceChild ==
    "MathML element has a whitespace-only child element."
MsgNoChild ==
    "MathML element has no child."
MsgInvalidAttribute ==
    "Math element has an invalid attribute type in the cellml namespace."
MsgCnNoUnits ==
    "Math cn element does not have a cellml:units attribute."
MsgBvarCiNoUnits ==
    "Math bvar ci element does not have a valid cellml:units attribute."
MsgUnitsReference ==
    "Math has an element with a cellml:units attribute that is not a valid reference to units in the component or a standard unit."
MsgComponentUnitsDuplicate ==
    "Component contains multiple units with the name."
MsgComponentVariableDuplicate ==
    "Component contains multiple variables with the name."

Error(kind, msg, args, subject) ==
    [kind |-> kind, desc |-> [msg |-> msg, args |-> args], subject |-> subject]

-----------------------------------------------------------------------------
(* The XML collaborator (xmldoc.h, xmlnode.h, xmlattribute.h).             *)
(* A node is [type, text, attrs, children]; a text node carries its text.  *)
(* An attribute is [ns, name, value].  A sequence of nodes is a chain of   *)
(* siblings: getFirstChild is children[1], getNext the next element.       *)

CellmlNs == "cellml"

Attribute(ns, name, value) == [ns |-> ns, name |-> name, value |-> value]
Element(type, attrs, children) ==
    [type |-> type, text |-> <<>>, attrs |-> attrs, children |-> children]
Text(t) == [type |-> "text", text |-> t, attrs |-> <<>>, children |-> <<>>]

\* XmlAttribute::isType: the attribute of that name in the CellML namespace.
AttributeIsType(attribute, name) == attribute.ns = CellmlNs /\ attribute.name = name

\* XmlDoc::parse: the errors libxml2 reported and the root node, if any.
XmlDocParse(input) == [xmlErrors |-> input.xmlErrors, root |-> input.root]

MathmlElements ==
    {"math", "apply", "bvar", "ci", "cn", "eq", "diff", "plus", "times", "lambda"}

RECURSIVE DtdErrors(_, _)
DtdErrors(siblings, k) ==
    IF k > Len(siblings) THEN <<>>
    ELSE LET node == siblings[k]
             foreign == SelectSeq(node.attrs, LAMBDA a : a.ns = CellmlNs)
         IN  (IF node.type \in MathmlElements \cup {"text"} THEN <<>>
              ELSE << [msg |-> "No declaration for element", args |-> <<node.type>>] >>)
             \o [n \in 1..Len(foreign) |->
                    [msg |-> "No declaration for attribute", args |-> <<foreign[n].name>>]]
             \o DtdErrors(node.children, 1)
             \o DtdErrors(siblings, k + 1)

\* XmlDoc::parseMathML on the serialized tree: the MathML DTD's complaints.
XmlDocParseMathML(root) == DtdErrors(root, 1)

-----------------------------------------------------------------------------
(* Accessors of the entity tree (component.h, units.h).                    *)

RECURSIVE NamesOf(_)
NamesOf(entities) ==
    IF entities = <<>> THEN <<>> ELSE <<Head(entities).name>> \o NamesOf(Tail(entities))

\* Component::hasUnits(name)
HasUnits(component, name) == \E k \in 1..Len(component.units) : component.units[k].name = name

\* Units::getUnitValidationErrors(unitsNames): what the Units' own per-unit
\* validator returns for this Units in its scope.
GetUnitValidationErrors(units, names) == units.unitValidationErrors

-----------------------------------------------------------------------------
(* Validator::validateUnits (lines 351-387).                               *)

\* validateUnits taking every name for a standard unit's.
validateUnitsEveryNameProtected(units, names, subject) ==
    (IF Len(units.name) = 0
     THEN <<Error("UNITS", MsgUnitsName, <<>>, subject)>>
     ELSE <<Error("UNITS", MsgStandardUnit, <<units.name>>, subject)>>)
    \o LET unitErrors == GetUnitValidationErrors(units, names)
       IN  [n \in 1..Len(unitErrors) |->
               [kind |-> "UNITS", desc |-> unitErrors[n], subject |-> subject]]

\* validateUnits without the lookup among the standard units.
validateUnitsWithoutStandardCheck(units, names, subject) ==
    (IF Len(units.name) = 0
     THEN <<Error("UNITS", MsgUnitsName, <<>>, subject)>>
     ELSE <<>>)
    \o LET unitErrors == GetUnitValidationErrors(units, names)
       IN  [n \in 1..Len(unitErrors) |->
               [kind |-> "UNITS", desc |-> unitErrors[n], subject |-> subject]]

validateUnits(units, names, subject) ==
    (IF Len(units.name) = 0
     THEN <<Error("UNITS", MsgUnitsName, <<>>, subject)>>
     ELSE IF Found(standardUnitNames, units.name)
     THEN <<Error("UNITS", MsgStandardUnit,
                  <<units.name>>, subject)>>
     ELSE <<>>)
    \o LET unitErrors == GetUnitValidationErrors(units, names)
       IN  [n \in 1..Len(unitErrors) |->
               [kind |-> "UNITS", desc |-> unitErrors[n], subject |-> subject]]

-----------------------------------------------------------------------------
(* Validator::validateVariable (lines 389-438).                            *)

InterfaceTypes == {s_public, s_private, s_none, s_public_and_private}

\* validateVariable without the look at the name.
validateVariableWithoutNameCheck(variable, variableNames, subject) ==
    (IF Len(variable.units) = 0
     THEN <<Error("VARIABLE", MsgVariableUnits, <<variable.name>>, subject)>>
     ELSE <<>>)
    \o (IF Len(variable.interfaceType) # 0 /\ variable.interfaceType \notin InterfaceTypes
        THEN <<Error("VARIABLE", MsgVariableInterface,
                     <<variable.name, variable.interfaceType>>, subject)>>
        ELSE <<>>)
    \o (IF /\ Len(variable.initialValue) # 0
           /\ ~ Found(variableNames, variable.initialValue)
           /\ catchDoubleConversionError(variable.initialValue)
        THEN <<Error("VARIABLE", MsgInitialValue,
                     <<variable.name, variable.initialValue>>, subject)>>
        ELSE <<>>)

validateVariable(variable, variableNames, subject) ==
    (IF Len(variable.name) = 0
     THEN <<Error("VARIABLE", MsgVariableName, <<>>, subject)>>
     ELSE <<>>)
    \o (IF Len(variable.units) = 0
        THEN <<Error("VARIABLE", MsgVariableUnits,
                     <<variable.name>>, subject)>>
        ELSE <<>>)
    \o (IF Len(variable.interfaceType) # 0 /\ variable.interfaceType \notin InterfaceTypes
        THEN <<Error("VARIABLE", MsgVariableInterface,
                     <<variable.name, variable.interfaceType>>, subject)>>
        ELSE <<>>)
    \o (IF /\ Len(variable.initialValue) # 0
           /\ ~ Found(variableNames, variable.initialValue)
           /\ catchDoubleConversionError(variable.initialValue)
        THEN <<Error("VARIABLE", MsgInitialValue,
                     <<variable.name, variable.initialValue>>, subject)>>
        ELSE <<>>)

-----------------------------------------------------------------------------
(* Validator::ValidatorImpl::gatherMathBvarVariableNames (lines 659-686),  *)
(* on the node siblings[k]: the names it pushes back, in order.            *)

RECURSIVE gatherMathBvarVariableNames(_, _)
gatherMathBvarVariableNames(siblings, k) ==
    IF k > Len(siblings) THEN <<>>
    ELSE LET node == siblings[k]
             hasChild == node.children # <<>>
             childNode == node.children[1]
             hasGrandchild == childNode.children # <<>>
             grandchildNode == childNode.children[1]
         IN  (IF node.type = "bvar"
              THEN IF /\ hasChild
                      /\ childNode.type = "ci"
                      /\ hasGrandchild
                      /\ grandchildNode.type = "text"
                      /\ isNotWhitespace(grandchildNode.text)
                   THEN <<grandchildNode.text>>
                   ELSE <<>>
              ELSE IF hasChild THEN gatherMathBvarVariableNames(node.children, 1)
              ELSE <<>>)
             \o gatherMathBvarVariableNames(siblings, k + 1)

-----------------------------------------------------------------------------
(* Validator::ValidatorImpl::validateAndCleanMathCiCnNodes (lines 514-636) *)

\* The ci text looked up among the variable names only.
CiCnChildErrorsWithoutBvars(node, component, subject, variableNames, bvarNames) ==
    LET childNode == node.children[1]
        textNode == childNode.text
    IN  IF node.children = <<>>
        THEN <<Error("MATHML", MsgNoChild, <<node.type>>, subject)>>
        ELSE IF childNode.type # "text" THEN <<>>
        ELSE IF ~ isNotWhitespace(textNode)
        THEN <<Error("MATHML", MsgWhitespaceChild, <<node.type>>, subject)>>
        ELSE IF node.type = "ci"
        THEN IF ~ Found(variableNames, textNode)
             THEN <<Error("MATHML", MsgCiNotVariable, <<textNode, component.name>>, subject)>>
             ELSE <<>>
        ELSE IF catchDoubleConversionError(textNode)
             THEN <<Error("MATHML", MsgCnNotNumber, <<textNode>>, subject)>>
             ELSE <<>>

\* Lines 520-562: the checks of the child of a ci or cn node.
CiCnChildErrors(node, component, subject, variableNames, bvarNames) ==
    LET childNode == node.children[1]
        textNode == childNode.text
    IN  IF node.children = <<>>
        THEN <<Error("MATHML", MsgNoChild, <<node.type>>, subject)>>
        ELSE IF childNode.type # "text" THEN <<>>
        ELSE IF ~ isNotWhitespace(textNode)
        THEN <<Error("MATHML", MsgWhitespaceChild,
                     <<node.type>>, subject)>>
        ELSE IF node.type = "ci"
        THEN IF ~ Found(variableNames, textNode) /\ ~ Found(bvarNames, textNode)
             THEN <<Error("MATHML",
                          MsgCiNotVariable,
                          <<textNode, component.name>>, subject)>>
             ELSE <<>>
        ELSE IF catchDoubleConversionError(textNode)
             THEN <<Error("MATHML", MsgCnNotNumber,
                          <<textNode>>, subject)>>
             ELSE <<>>

\* Lines 567-582: an attribute with a value is the units attribute or an error.
CiCnAttributeErrors(node, subject) ==
    LET invalid == SelectSeq(node.attrs,
                             LAMBDA a : Len(a.value) > 0 /\ ~ AttributeIsType(a, "units"))
    IN  [n \in 1..Len(invalid) |->
            Error("MATHML", MsgInvalidAttribute,
                  <<node.type, invalid[n].name>>, subject)]

\* The position of unitsAttribute among the node's attributes (the last one the
\* loop of lines 567-582 assigns), 0 when it stays null.
UnitsAttributeIndex(node) ==
    LET hits == {n \in 1..Len(node.attrs) :
                    Len(node.attrs[n].value) > 0 /\ AttributeIsType(node.attrs[n], "units")}
    IN  IF hits = {} THEN 0 ELSE CHOOSE n \in hits : \A h \in hits : h <= n

\* Lines 583-618: the checks of the cellml:units attribute.
CiCnUnitsErrors(node, parentType, component, subject) ==
    LET idx == UnitsAttributeIndex(node)
        unitsName == IF idx = 0 THEN <<>> ELSE node.attrs[idx].value
        textNode == IF node.children # <<>> /\ node.children[1].type = "text"
                    THEN node.children[1].text ELSE <<>>
    IN  IF Len(unitsName) = 0
        THEN IF node.type = "cn"
             THEN <<Error("MATHML", MsgCnNoUnits,
                          <<textNode>>, subject)>>
             ELSE IF parentType = "bvar"
             THEN <<Error("MATHML", MsgBvarCiNoUnits,
                          <<textNode>>, subject)>>
             ELSE <<>>
        ELSE IF ~ HasUnits(component, unitsName) /\ ~ Found(standardUnitNames, unitsName)
             THEN <<Error("MATHML",
                          MsgUnitsReference,
                          <<node.type, unitsName, component.name>>, subject)>>
             ELSE <<>>

\* The node left as it is.
RemoveNoAttribute(node) == node

\* Lines 619-624: unitsAttribute->removeAttribute().
RemoveUnitsAttribute(node) ==
    LET idx == UnitsAttributeIndex(node)
    IN  IF idx = 0 THEN node
        ELSE [node EXCEPT !.attrs =
                 [n \in 1..(Len(node.attrs) - 1) |->
                     IF n < idx THEN node.attrs[n] ELSE node.attrs[n + 1]]]

\* The walk on the node siblings[k], whose parent has type parentType: the errors
\* added, in order, and the nodes siblings[k..] as the walk leaves them.
\* The walk with the siblings looked at before the node and its children.
RECURSIVE validateAndCleanMathCiCnNodesSiblingFirst(_, _, _, _, _, _, _)
validateAndCleanMathCiCnNodesSiblingFirst(siblings, k, parentType, component, subject, variableNames, bvarNames) ==
    IF k > Len(siblings) THEN [errs |-> <<>>, nodes |-> <<>>]
    ELSE LET node == siblings[k]
             isCiCn == node.type = "ci" \/ node.type = "cn"
             below == IF isCiCn \/ node.children = <<>>
                      THEN [errs |-> <<>>, nodes |-> node.children]
                      ELSE validateAndCleanMathCiCnNodesSiblingFirst(node.children, 1, node.type,
                               component, subject, variableNames, bvarNames)
             own == IF isCiCn
                    THEN CiCnChildErrors(node, component, subject, variableNames, bvarNames)
                         \o CiCnAttributeErrors(node, subject)
                         \o CiCnUnitsErrors(node, parentType, component, subject)
                    ELSE below.errs
             cleaned == IF isCiCn THEN RemoveUnitsAttribute(node)
                        ELSE [node EXCEPT !.children = below.nodes]
             next == validateAndCleanMathCiCnNodesSiblingFirst(siblings, k + 1, parentType,
                         component, subject, variableNames, bvarNames)
         IN  [errs |-> next.errs \o own, nodes |-> <<cleaned>> \o next.nodes]

RECURSIVE validateAndCleanMathCiCnNodes(_, _, _, _, _, _, _)
validateAndCleanMathCiCnNodes(siblings, k, parentType, component, subject, variableNames, bvarNames) ==
    IF k > Len(siblings) THEN [errs |-> <<>>, nodes |-> <<>>]
    ELSE LET node == siblings[k]
             isCiCn == node.type = "ci" \/ node.type = "cn"
             below == IF isCiCn \/ node.children = <<>>
                      THEN [errs |-> <<>>, nodes |-> node.children]
                      ELSE validateAndCleanMathCiCnNodes(node.children, 1, node.type,
                               component, subject, variableNames, bvarNames)
             own == IF isCiCn
                    THEN CiCnChildErrors(node, component, subject, variableNames, bvarNames)
                         \o CiCnAttributeErrors(node, subject)
                         \o CiCnUnitsErrors(node, parentType, component, subject)
                    ELSE below.errs
             cleaned == IF isCiCn THEN RemoveUnitsAttribute(node)
                        ELSE [node EXCEPT !.children = below.nodes]
             next == validateAndCleanMathCiCnNodes(siblings, k + 1, parentType,
                         component, subject, variableNames, bvarNames)
         IN  [errs |-> own \o next.errs, nodes |-> <<cleaned>> \o next.nodes]

-----------------------------------------------------------------------------
(* Validator::ValidatorImpl::validateMath (lines 440-512): the errors      *)
(* added and the trees handed to the MathML DTD validator (none or one).   *)

\* Lines 478-488: one error per entry of variableNames found in bvarNames.
BvarCollisionErrors(component, subject, variableNames, bvarNames) ==
    LET hits == SelectSeq(variableNames, LAMBDA v : Found(bvarNames, v))
    IN  [n \in 1..Len(hits) |->
            Error("MATHML", MsgBvarCollision,
                  <<component.name, hits[n]>>, subject)]

\* validateMath without the return for a root that is not math.
validateMathOfAnyRoot(input, component, subject, variableNames) ==
    LET doc == XmlDocParse(input)
        parseErrors == [n \in 1..Len(doc.xmlErrors) |->
                           [kind |-> "XML", desc |-> doc.xmlErrors[n], subject |-> NoSubject]]
        node == doc.root
    IN  IF node = <<>>
        THEN [errs |-> parseErrors \o
                       <<Error("XML", MsgNoRoot, <<component.name>>, subject)>>,
              submitted |-> <<>>]
        ELSE LET bvarNames == gatherMathBvarVariableNames(node, 1)
                 walk == validateAndCleanMathCiCnNodes(node, 1, "document", component,
                             subject, variableNames, bvarNames)
                 cleanMath == walk.nodes
                 dtdErrors == XmlDocParseMathML(cleanMath)
             IN  [errs |-> parseErrors
                           \o (IF node[1].type # "math"
                               THEN <<Error("XML", MsgRootType,
                                            <<node[1].type, component.name>>, subject)>>
                               ELSE <<>>)
                           \o BvarCollisionErrors(component, subject, variableNames, bvarNames)
                           \o walk.errs
                           \o [n \in 1..Len(dtdErrors) |->
                                  [kind |-> "MATHML", desc |-> dtdErrors[n], subject |-> subject]],
                  submitted |-> <<cleanMath>>]

validateMath(input, component, subject, variableNames) ==
    LET doc == XmlDocParse(input)
        parseErrors == [n \in 1..Len(doc.xmlErrors) |->
                           [kind |-> "XML", desc |-> doc.xmlErrors[n], subject |-> NoSubject]]
        node == doc.root
    IN  IF node = <<>>
        THEN [errs |-> parseErrors \o
                       <<Error("XML", MsgNoRoot,
                               <<component.name>>, subject)>>,
              submitted |-> <<>>]
        ELSE IF node[1].type # "math"
        THEN [errs |-> parseErrors \o
                       <<Error("XML", MsgRootType,
                               <<node[1].type, component.name>>, subject)>>,
              submitted |-> <<>>]
        ELSE LET bvarNames == gatherMathBvarVariableNames(node, 1)
                 walk == validateAndCleanMathCiCnNodes(node, 1, "document", component,
                             subject, variableNames, bvarNames)
                 cleanMath == walk.nodes
                 dtdErrors == XmlDocParseMathML(cleanMath)
             IN  [errs |-> parseErrors
                           \o BvarCollisionErrors(component, subject, variableNames, bvarNames)
                           \o walk.errs
                           \o [n \in 1..Len(dtdErrors) |->
                                  [kind |-> "MATHML", desc |-> dtdErrors[n], subject |-> subject]],
                  submitted |-> <<cleanMath>>]

-----------------------------------------------------------------------------
(* Validator::validateComponent (lines 283-349).                           *)

\* The loops of lines 296-312 and 324-338: the names among names[1..k-1] that
\* are not empty have been pushed back when names[k] is looked up.
NonEmpty(names) == SelectSeq(names, LAMBDA n : Len(n) # 0)

DuplicateNameErrors(names, kind, msg, ownerName, subject) ==
    LET dup(k) == /\ Len(names[k]) # 0
                  /\ Found(NonEmpty(SubSeq(names, 1, k - 1)), names[k])
        hits == SelectSeq([k \in 1..Len(names) |-> k], dup)
    IN  [n \in 1..Len(hits) |-> Error(kind, msg, <<ownerName, names[hits[n]]>>, subject)]

validateComponent(component, c) ==
    LET subject == ComponentSubject(c)
        componentUnitsNames == NonEmpty(NamesOf(component.units))
        variableNames == NonEmpty(NamesOf(component.variables))
        math == IF Len(component.math) # 0
                THEN validateMath(component.math[1], component, subject, variableNames)
                ELSE [errs |-> <<>>, submitted |-> <<>>]
    IN  [errs |->
            (IF Len(component.name) = 0
             THEN <<Error("COMPONENT", MsgComponentName,
                          <<>>, subject)>>
             ELSE <<>>)
            \o DuplicateNameErrors(NamesOf(component.units), "COMPONENT",
                                   MsgComponentUnitsDuplicate,
                                   component.name, subject)
            \o Flatten([u \in 1..Len(component.units) |->
                           validateUnits(component.units[u], componentUnitsNames,
                                         ComponentUnitsSubject(c, u - 1))])
            \o DuplicateNameErrors(NamesOf(component.variables), "COMPONENT",
                                   MsgComponentVariableDuplicate,
                                   component.name, subject)
            \o Flatten([v \in 1..Len(component.variables) |->
                           validateVariable(component.variables[v], variableNames,
                                            VariableSubject(c, v - 1))])
            \o math.errs,
         submitted |-> math.submitted]

-----------------------------------------------------------------------------
(* Validator::validateModel (lines 132-281), one action per loop iteration.*)

\* Lines 154-195 and 220-261: the checks of one imported entity against the
\* sources and refs pushed back so far.
IsDuplicateImport(importSources, refs, importSource, ref) ==
    /\ Len(importSources) > 0
    /\ Find(importSources, importSource) = Find(refs, ref)

\* The href looked at only when the ref is there.
ImportErrorsHrefAfterRef(entityName, ref, importSource, importSources, refs, refKind, refMsg, hrefMsg, dupMsg, subject, importSubject) ==
    LET foundImportError == Len(ref) = 0 \/ Len(importSource) = 0
    IN  (IF Len(ref) = 0 THEN <<Error(refKind, refMsg, <<entityName>>, subject)>>
         ELSE IF Len(importSource) = 0
         THEN <<Error("IMPORT", hrefMsg, <<entityName>>, importSubject)>>
         ELSE <<>>)
        \o (IF ~ foundImportError /\ IsDuplicateImport(importSources, refs, importSource, ref)
            THEN <<Error("MODEL", dupMsg, <<model.name, importSource, ref>>, ModelSubject)>>
            ELSE <<>>)

ImportErrors(entityName, ref, importSource, importSources, refs, refKind, refMsg, hrefMsg, dupMsg, subject, importSubject) ==
    LET foundImportError == Len(ref) = 0 \/ Len(importSource) = 0
    IN  (IF Len(ref) = 0 THEN <<Error(refKind, refMsg, <<entityName>>, subject)>> ELSE <<>>)
        \o (IF Len(importSource) = 0
            THEN <<Error("IMPORT", hrefMsg, <<entityName>>, importSubject)>>
            ELSE <<>>)
        \o (IF ~ foundImportError /\ IsDuplicateImport(importSources, refs, importSource, ref)
            THEN <<Error("MODEL", dupMsg, <<model.name, importSource, ref>>, ModelSubject)>>
            ELSE <<>>)

\* The step an error comes from: the check of the model's name, the checks that
\* validateModel itself makes of component c or of units u, validateComponent of
\* component c, validateUnits of the model's units u.
OriginModelName == <<"validateModel", "name">>
OriginComponentCheck(c) == <<"validateModel", "component", c>>
OriginComponent(c) == <<"validateComponent", c>>
OriginUnitsCheck(u) == <<"validateModel", "units", u>>
OriginUnits(u) == <<"validateUnits", u>>

Labels(errs, label) == [n \in 1..Len(errs) |-> label]

\* validateModel without its clearErrors().
ValidateModelBeginKeepingErrors ==
    /\ pc \in {"idle", "done"}
    /\ errors' = errors \o (IF Len(model.name) = 0
                            THEN <<Error("MODEL", MsgModelName, <<>>, ModelSubject)>>
                            ELSE <<>>)
    /\ origin' = origin \o (IF Len(model.name) = 0 THEN <<OriginModelName>> ELSE <<>>)
    /\ pc' = "components"
    /\ i' = 0
    /\ componentNames' = <<>>
    /\ componentRefs' = <<>>
    /\ componentImportSources' = <<>>
    /\ unitsNames' = <<>>
    /\ unitsRefs' = <<>>
    /\ unitsImportSources' = <<>>
    /\ calls' = <<>>
    /\ cleanMathml' = <<>>
    /\ UNCHANGED <<model, prevErrors>>

\* Lines 132-148: clearErrors(), the name check, and the way into the loops.
ValidateModelBegin ==
    /\ pc \in {"idle", "done"}
    /\ errors' = IF Len(model.name) = 0
                 THEN <<Error("MODEL", MsgModelName,
                              <<>>, ModelSubject)>>
                 ELSE <<>>
    /\ origin' = IF Len(model.name) = 0 THEN <<OriginModelName>> ELSE <<>>
    /\ pc' = "components"
    /\ i' = 0
    /\ componentNames' = <<>>
    /\ componentRefs' = <<>>
    /\ componentImportSources' = <<>>
    /\ unitsNames' = <<>>
    /\ unitsRefs' = <<>>
    /\ unitsImportSources' = <<>>
    /\ calls' = <<>>
    /\ cleanMathml' = <<>>
    /\ UNCHANGED <<model, prevErrors>>

\* Lines 149-209: one iteration of the loop over the components.
ComponentImportStep(component, c) ==
    IF Len(component.name) # 0 /\ component.isImport
    THEN ImportErrors(component.name, component.importReference, component.importSource,
                      componentImportSources, componentRefs, "COMPONENT",
                      MsgComponentRef,
                      MsgComponentHref,
                      MsgComponentDuplicateImport,
                      ComponentSubject(c), ComponentImportSubject(c))
    ELSE <<>>

\* The name looked up against the first recorded name only.
ComponentNameStepAgainstFirst(component) ==
    IF Len(component.name) # 0 /\ componentNames # <<>> /\ componentNames[1] = component.name
    THEN <<Error("MODEL", MsgComponentDuplicateName,
                 <<model.name, component.name>>, ModelSubject)>>
    ELSE <<>>

ComponentNameStep(component) ==
    IF Len(component.name) # 0 /\ Found(componentNames, component.name)
    THEN <<Error("MODEL", MsgComponentDuplicateName,
                 <<model.name, component.name>>, ModelSubject)>>
    ELSE <<>>

\* The component validated before validateModel's own checks of it.
ValidateModelComponentValidatedFirst ==
    /\ pc = "components"
    /\ i < Len(model.components)
    /\ LET component == model.components[i + 1]
           named == Len(component.name) # 0
           imported == named /\ component.isImport
           validated == validateComponent(component, i)
       IN  /\ errors' = errors \o validated.errs
                               \o ComponentImportStep(component, i)
                               \o ComponentNameStep(component)
           /\ componentImportSources' =
                  IF imported THEN Append(componentImportSources, component.importSource)
                  ELSE componentImportSources
           /\ componentRefs' =
                  IF imported THEN Append(componentRefs, component.importReference)
                  ELSE componentRefs
           /\ componentNames' =
                  IF named THEN Append(componentNames, component.name) ELSE componentNames
           /\ origin' = origin
                         \o Labels(validated.errs, OriginComponent(i))
                         \o Labels(ComponentImportStep(component, i)
                                   \o ComponentNameStep(component), OriginComponentCheck(i))
           /\ calls' = Append(calls, <<"validateComponent", i>>)
           /\ cleanMathml' = cleanMathml \o validated.submitted
    /\ i' = i + 1
    /\ UNCHANGED <<model, pc, unitsNames, unitsRefs, unitsImportSources, prevErrors>>

\* validateModel given up after a component whose math has no math root.
ValidateModelComponentAborting ==
    /\ pc = "components"
    /\ i < Len(model.components)
    /\ LET component == model.components[i + 1]
           named == Len(component.name) # 0
           imported == named /\ component.isImport
           validated == validateComponent(component, i)
           aborted == \E n \in 1..Len(validated.errs) :
                          validated.errs[n].desc.msg \in {MsgNoRoot, MsgRootType}
       IN  /\ errors' = errors \o ComponentImportStep(component, i)
                               \o ComponentNameStep(component)
                               \o validated.errs
           /\ componentImportSources' =
                  IF imported THEN Append(componentImportSources, component.importSource)
                  ELSE componentImportSources
           /\ componentRefs' =
                  IF imported THEN Append(componentRefs, component.importReference)
                  ELSE componentRefs
           /\ componentNames' =
                  IF named THEN Append(componentNames, component.name) ELSE componentNames
           /\ origin' = origin
                         \o Labels(ComponentImportStep(component, i)
                                   \o ComponentNameStep(component), OriginComponentCheck(i))
                         \o Labels(validated.errs, OriginComponent(i))
           /\ calls' = Append(calls, <<"validateComponent", i>>)
           /\ cleanMathml' = cleanMathml \o validated.submitted
           /\ pc' = IF aborted THEN "done" ELSE pc
    /\ i' = i + 1
    /\ UNCHANGED <<model, unitsNames, unitsRefs, unitsImportSources, prevErrors>>

\* The cleaned tree written back to the component.
ValidateModelComponentStoringCleanMath ==
    /\ pc = "components"
    /\ i < Len(model.components)
    /\ LET component == model.components[i + 1]
           named == Len(component.name) # 0
           imported == named /\ component.isImport
           validated == validateComponent(component, i)
       IN  /\ errors' = errors \o ComponentImportStep(component, i)
                               \o ComponentNameStep(component)
                               \o validated.errs
           /\ componentImportSources' =
                  IF imported THEN Append(componentImportSources, component.importSource)
                  ELSE componentImportSources
           /\ componentRefs' =
                  IF imported THEN Append(componentRefs, component.importReference)
                  ELSE componentRefs
           /\ componentNames' =
                  IF named THEN Append(componentNames, component.name) ELSE componentNames
           /\ origin' = origin
                         \o Labels(ComponentImportStep(component, i)
                                   \o ComponentNameStep(component), OriginComponentCheck(i))
                         \o Labels(validated.errs, OriginComponent(i))
           /\ calls' = Append(calls, <<"validateComponent", i>>)
           /\ cleanMathml' = cleanMathml \o validated.submitted
           /\ model' = IF validated.submitted = <<>> THEN model
                       ELSE [model EXCEPT !.components[i + 1].math =
                                <<[component.math[1] EXCEPT !.root = validated.submitted[1]]>>]
    /\ i' = i + 1
    /\ UNCHANGED <<pc, unitsNames, unitsRefs, unitsImportSources, prevErrors>>

ValidateModelComponent ==
    /\ pc = "components"
    /\ i < Len(model.components)
    /\ LET component == model.components[i + 1]
           named == Len(component.name) # 0
           imported == named /\ component.isImport
           validated == validateComponent(component, i)
       IN  /\ errors' = errors \o ComponentImportStep(component, i)
                               \o ComponentNameStep(component)
                               \o validated.errs
           /\ componentImportSources' =
                  IF imported THEN Append(componentImportSources, component.importSource)
                  ELSE componentImportSources
           /\ componentRefs' =
                  IF imported THEN Append(componentRefs, component.importReference)
                  ELSE componentRefs
           /\ componentNames' =
                  IF named THEN Append(componentNames, component.name) ELSE componentNames
           /\ origin' = origin
                         \o Labels(ComponentImportStep(component, i)
                                   \o ComponentNameStep(component), OriginComponentCheck(i))
                         \o Labels(validated.errs, OriginComponent(i))
           /\ calls' = Append(calls, <<"validateComponent", i>>)
           /\ cleanMathml' = cleanMathml \o validated.submitted
    /\ i' = i + 1
    /\ UNCHANGED <<model, pc, unitsNames, unitsRefs, unitsImportSources, prevErrors>>

\* Line 149's exit and line 212.
ValidateModelComponentsDone ==
    /\ pc = "components"
    /\ i = Len(model.components)
    /\ pc' = "unitsNames"
    /\ i' = 0
    /\ UNCHANGED <<model, errors, componentNames, componentRefs, componentImportSources,
                   unitsNames, unitsRefs, unitsImportSources, origin, calls, cleanMathml,
                   prevErrors>>

\* Lines 216-274: one iteration of the first loop over the units.
UnitsImportStep(units, u) ==
    IF Len(units.name) # 0 /\ units.isImport
    THEN ImportErrors(units.name, units.importReference, units.importSource,
                      unitsImportSources, unitsRefs, "UNITS",
                      MsgUnitsRef,
                      MsgUnitsHref,
                      MsgUnitsDuplicateImport,
                      ModelUnitsSubject(u), ModelUnitsImportSubject(u))
    ELSE <<>>

UnitsNameStep(units) ==
    IF Len(units.name) # 0 /\ Found(unitsNames, units.name)
    THEN <<Error("MODEL", MsgUnitsDuplicateName,
                 <<model.name, units.name>>, ModelSubject)>>
    ELSE <<>>

ValidateModelUnitsNames ==
    /\ pc = "unitsNames"
    /\ i < Len(model.units)
    /\ LET units == model.units[i + 1]
           named == Len(units.name) # 0
           imported == named /\ units.isImport
       IN  /\ errors' = errors \o UnitsImportStep(units, i) \o UnitsNameStep(units)
           /\ unitsImportSources' =
                  IF imported THEN Append(unitsImportSources, units.importSource)
                  ELSE unitsImportSources
           /\ unitsRefs' =
                  IF imported THEN Append(unitsRefs, units.importReference) ELSE unitsRefs
           /\ unitsNames' = IF named THEN Append(unitsNames, units.name) ELSE unitsNames
           /\ origin' = origin \o Labels(UnitsImportStep(units, i) \o UnitsNameStep(units),
                                         OriginUnitsCheck(i))
    /\ i' = i + 1
    /\ UNCHANGED <<model, pc, componentNames, componentRefs, componentImportSources,
                   calls, cleanMathml, prevErrors>>

\* Line 216's exit and line 275.
ValidateModelUnitsNamesDone ==
    /\ pc = "unitsNames"
    /\ i = Len(model.units)
    /\ pc' = "units"
    /\ i' = 0
    /\ UNCHANGED <<model, errors, componentNames, componentRefs, componentImportSources,
                   unitsNames, unitsRefs, unitsImportSources, origin, calls, cleanMathml,
                   prevErrors>>

\* Lines 275-279: one iteration of the second loop over the units.
ValidateModelUnits ==
    /\ pc = "units"
    /\ i < Len(model.units)
    /\ errors' = errors \o validateUnits(model.units[i + 1], unitsNames, ModelUnitsSubject(i))
    /\ origin' = origin \o Labels(validateUnits(model.units[i + 1], unitsNames,
                                                ModelUnitsSubject(i)), OriginUnits(i))
    /\ calls' = Append(calls, <<"validateUnits", i>>)
    /\ i' = i + 1
    /\ UNCHANGED <<model, pc, componentNames, componentRefs, componentImportSources,
                   unitsNames, unitsRefs, unitsImportSources, cleanMathml, prevErrors>>

\* Line 281: validateModel returns.
ValidateModelReturn ==
    /\ pc = "units"
    /\ i = Len(model.units)
    /\ pc' = "done"
    /\ prevErrors' = <<errors>>
    /\ UNCHANGED <<model, errors, i, componentNames, componentRefs,
                   componentImportSources, unitsNames, unitsRefs, unitsImportSources,
                   origin, calls, cleanMathml>>

-----------------------------------------------------------------------------
(* The models validated: the entity trees a caller can build.              *)

Units(name, isImport, ref, href, unitErrors) ==
    [name |-> name, isImport |-> isImport, importReference |-> ref,
     importSource |-> href, unitValidationErrors |-> unitErrors]

PlainUnits(name) == Units(name, FALSE, Empty, Empty, <<>>)

Variable(name, units, interfaceType, initialValue) ==
    [name |-> name, units |-> units, interfaceType |-> interfaceType,
     initialValue |-> initialValue]

PlainVariable(name) == Variable(name, s_u, Empty, Empty)

Component(name, isImport, ref, href, units, variables, math) ==
    [name |-> name, isImport |-> isImport, importReference |-> ref,
     importSource |-> href, units |-> units, variables |-> variables, math |-> math]

PlainComponent(name) == Component(name, FALSE, Empty, Empty, <<>>, <<>>, <<>>)

Model(name, components, units) ==
    [name |-> name, components |-> components, units |-> units]

ModelNames == {Empty, s_m}

\* (component_ref or units_ref, xlink:href) of the imports.
ImportPairs ==
    {<<Empty, Empty>>, <<Empty, s_h1>>, <<s_r1, Empty>>,
     <<s_r1, s_h1>>, <<s_r2, s_h2>>, <<s_r2, s_h1>>}

\* Components without content, imported or not.
ImportComponents ==
    {PlainComponent(n) : n \in {Empty, s_a, s_b}}
    \cup {Component(s_a, TRUE, p[1], p[2], <<>>, <<>>, <<>>) : p \in ImportPairs}
    \cup {Component(s_b, TRUE, s_r2, s_h1, <<>>, <<>>, <<>>),
          Component(Empty, TRUE, Empty, Empty, <<>>, <<>>, <<>>)}

ImportModels ==
    {Model(n, cs, <<>>) : n \in ModelNames, cs \in SeqsUpTo(ImportComponents, MaxComponents)}

UnitEntryError == [msg |-> "Units has an invalid unit entry.", args |-> <<>>]

ModelUnits ==
    {PlainUnits(n) : n \in {Empty, s_u, s_second}}
    \cup {Units(s_u, FALSE, Empty, Empty, <<UnitEntryError>>)}
    \cup {Units(s_u, TRUE, p[1], p[2], <<>>) : p \in ImportPairs}
    \cup {Units(Empty, TRUE, Empty, Empty, <<>>)}

UnitsModels ==
    {Model(n, <<>>, us) : n \in ModelNames, us \in SeqsUpTo(ModelUnits, MaxUnits)}

\* Initial values: every string of at most MaxStrLen of these characters.
InitialValueChars == {"1", ".", "e", "-", "x", " "}
InitialValues == SeqsUpTo(InitialValueChars, MaxStrLen)

s_bad == <<"b", "a", "d">>

FirstVariables == {Variable(n, s_u, Empty, v) : n \in {Empty, s_x, s_y}, v \in InitialValues}
SecondVariables ==
    {PlainVariable(s_x), PlainVariable(s_y), PlainVariable(Empty),
     Variable(s_x, Empty, Empty, Empty), Variable(s_x, s_u, s_public, Empty),
     Variable(s_x, s_u, s_bad, Empty)}

VariableModels ==
    {Model(s_m, <<Component(s_c, FALSE, Empty, Empty, <<>>, vs, <<>>)>>, <<>>) :
        vs \in {<<v>> : v \in FirstVariables}
               \cup {<<v, w>> : v \in FirstVariables, w \in SecondVariables}}

\* Math: what XmlDoc::parse makes of the math string of a component.
Doc(xmlErrors, root) == [xmlErrors |-> xmlErrors, root |-> root]

XmlParseError == [msg |-> "libxml2 parse error", args |-> <<>>]

UnitsAttr(value) == Attribute(CellmlNs, "units", value)
Ci(attrs, t) == Element("ci", attrs, <<Text(t)>>)
Cn(attrs, t) == Element("cn", attrs, <<Text(t)>>)
Apply(children) == Element("apply", <<>>, children)
Bvar(children) == Element("bvar", <<>>, children)
Math(children) == Element("math", <<>>, children)

s_zz == <<"z", "z">>

MathDocs ==
    { \* not well formed: errors and no root; no root and no error
      Doc(<<XmlParseError>>, <<>>),
      Doc(<<>>, <<>>),
      \* a root that is not math, over nodes the passes would complain about
      Doc(<<>>, <<Apply(<<Bvar(<<Ci(<<>>, s_x)>>), Ci(<<>>, s_zz), Cn(<<>>, s_x),
                           Element("foo", <<>>, <<>>)>>)>>),
      Doc(<<XmlParseError>>, <<Element("foo", <<>>, <<Cn(<<>>, s_x)>>)>>),
      \* well-formed math with a namespace error reported by the parser
      Doc(<<XmlParseError>>, <<Math(<<Ci(<<>>, s_x)>>)>>),
      \* x = 2 second
      Doc(<<>>, <<Math(<<Apply(<<Element("eq", <<>>, <<>>), Ci(<<>>, s_x),
                                 Cn(<<UnitsAttr(s_second)>>, <<"2">>)>>)>>)>>),
      \* dx/dt, t bound by the bvar
      Doc(<<>>, <<Math(<<Apply(<<Element("diff", <<>>, <<>>),
                                 Bvar(<<Ci(<<UnitsAttr(s_second)>>, s_t)>>),
                                 Ci(<<>>, s_x)>>)>>)>>),
      \* x bound by a bvar, twice
      Doc(<<>>, <<Math(<<Apply(<<Bvar(<<Ci(<<UnitsAttr(s_u)>>, s_x)>>),
                                 Bvar(<<Ci(<<UnitsAttr(s_u)>>, s_x)>>),
                                 Ci(<<>>, s_y)>>)>>)>>),
      \* t used in one apply and bound by the bvar of another
      Doc(<<>>, <<Math(<<Apply(<<Ci(<<>>, s_t)>>),
                         Apply(<<Bvar(<<Ci(<<UnitsAttr(s_second)>>, s_t)>>)>>)>>)>>),
      \* t bound nowhere; a bvar without units; a bvar over no ci
      Doc(<<>>, <<Math(<<Apply(<<Ci(<<>>, s_t), Bvar(<<Ci(<<>>, s_y)>>),
                                 Bvar(<<Apply(<<Ci(<<>>, s_zz)>>)>>)>>)>>)>>),
      \* t inside the bvar that binds it
      Doc(<<>>, <<Math(<<Bvar(<<Ci(<<UnitsAttr(s_second)>>, s_t),
                                Element("degree", <<>>, <<Ci(<<>>, s_t)>>)>>)>>)>>),
      \* leaves without child, with white space, with a non-text child
      Doc(<<>>, <<Math(<<Element("ci", <<>>, <<>>),
                         Element("cn", <<UnitsAttr(s_second)>>, <<>>),
                         Ci(<<>>, <<" ">>), Cn(<<UnitsAttr(s_second)>>, <<" ", "\t">>),
                         Element("cn", <<UnitsAttr(s_second)>>,
                                 <<Ci(<<UnitsAttr(s_u)>>, s_zz)>>)>>)>>),
      \* cn values
      Doc(<<>>, <<Math(<<Cn(<<UnitsAttr(s_second)>>, s_x),
                         Cn(<<UnitsAttr(s_second)>>, <<"1", "x">>),
                         Cn(<<UnitsAttr(s_second)>>, <<"1", ".", "5", "e", "-", "3">>),
                         Cn(<<>>, <<"1">>)>>)>>),
      \* attributes
      Doc(<<>>, <<Math(<<Ci(<<Attribute(CellmlNs, "foo", s_a)>>, s_x),
                         Cn(<<Attribute("", "type", s_a), UnitsAttr(s_second)>>, <<"1">>),
                         Ci(<<Attribute(CellmlNs, "foo", Empty), UnitsAttr(Empty)>>, s_x),
                         Cn(<<Attribute("", "units", s_second)>>, <<"1">>)>>)>>),
      \* units references
      Doc(<<>>, <<Math(<<Cn(<<UnitsAttr(s_u)>>, <<"1">>), Ci(<<UnitsAttr(s_zz)>>, s_x),
                         Element("foo", <<>>, <<Cn(<<UnitsAttr(s_second)>>, <<"2">>)>>)>>)>>),
      \* errors at every depth
      Doc(<<>>, <<Math(<<Apply(<<Apply(<<Ci(<<>>, s_a)>>), Ci(<<>>, s_b)>>),
                         Apply(<<Ci(<<>>, s_c)>>), Ci(<<>>, s_d)>>)>>) }

VariableLists ==
    {<<>>, <<PlainVariable(s_x)>>, <<PlainVariable(s_x), PlainVariable(s_x)>>,
     <<PlainVariable(s_x), PlainVariable(s_y)>>, <<PlainVariable(s_t)>>}

ComponentUnitsLists ==
    {<<>>, <<PlainUnits(s_u)>>, <<PlainUnits(s_second), PlainUnits(s_u), PlainUnits(s_u)>>}

MathComponents ==
    {Component(s_c, FALSE, Empty, Empty, us, vs, <<d>>) :
        us \in ComponentUnitsLists, vs \in VariableLists, d \in MathDocs}

\* What follows a component with math in its model.
NextComponents ==
    {<<>>,
     <<Component(s_d, FALSE, Empty, Empty, <<PlainUnits(Empty)>>, <<PlainVariable(s_x)>>,
                 <<Doc(<<>>, <<Math(<<Ci(<<>>, s_zz)>>)>>)>>)>>,
     <<Component(s_c, TRUE, s_r1, s_h1, <<>>, <<>>, <<>>),
       Component(s_c, TRUE, s_r1, s_h1, <<PlainUnits(s_second)>>, <<>>, <<>>)>>}

NextUnits ==
    {<<>>, <<PlainUnits(s_u)>>,
     <<PlainUnits(s_second), Units(s_u, TRUE, Empty, s_h1, <<UnitEntryError>>),
       PlainUnits(Empty)>>}

MathModels ==
    {Model(n, <<c>> \o cs, us) :
        n \in ModelNames, c \in MathComponents, cs \in NextComponents, us \in NextUnits}

Models == ImportModels \cup UnitsModels \cup VariableModels \cup MathModels

-----------------------------------------------------------------------------
(* The validator: constructed with no errors, then validateModel(model),   *)
(* called again on the same instance after it returns.                     *)

Init ==
    /\ model \in Models
    /\ errors = <<>>
    /\ pc = "idle"
    /\ i = 0
    /\ componentNames = <<>>
    /\ componentRefs = <<>>
    /\ componentImportSources = <<>>
    /\ unitsNames = <<>>
    /\ unitsRefs = <<>>
    /\ unitsImportSources = <<>>
    /\ origin = <<>>
    /\ calls = <<>>
    /\ cleanMathml = <<>>
    /\ prevErrors = <<>>

Next ==
    \/ ValidateModelBegin
    \/ ValidateModelComponent
    \/ ValidateModelComponentsDone
    \/ ValidateModelUnitsNames
    \/ ValidateModelUnitsNamesDone
    \/ ValidateModelUnits
    \/ ValidateModelReturn

Spec == Init /\ [][Next]_vars

-----------------------------------------------------------------------------
(* What the claims speak of.                                               *)

Done == pc = "done"

\* validateModel has run to its end and is about to return.
AtReturn == pc = "units" /\ i = Len(model.units)

\* The components and the model's units whose iteration of validateModel's
\* first loops is over.
ProcessedComponents ==
    CASE pc = "idle" -> 0
      [] pc = "components" -> i
      [] OTHER -> Len(model.components)

ProcessedUnits ==
    CASE pc \in {"idle", "components"} -> 0
      [] pc = "unitsNames" -> i
      [] OTHER -> Len(model.units)

ErrorPositions == 1..Len(errors)

\* An error with this text was added by this step.
Emitted(msg, from) ==
    \E n \in ErrorPositions : errors[n].desc.msg = msg /\ origin[n] = from

NamedImport(entity) == Len(entity.name) # 0 /\ entity.isImport

CompleteImport(entity) ==
    /\ NamedImport(entity)
    /\ Len(entity.importReference) # 0
    /\ Len(entity.importSource) # 0

\* An earlier entity of the list was recorded with the same (href, ref) pair.
RecordedPairBefore(entities, k) ==
    \E j \in 1..(k - 1) :
        /\ NamedImport(entities[j])
        /\ entities[j].importSource = entities[k].importSource
        /\ entities[j].importReference = entities[k].importReference

-----------------------------------------------------------------------------
\* C1: a complete import (name, ref and href not empty) gets a MODEL
\* duplicate-import error if and only if an earlier imported component (units) of
\* the model was recorded with the same (href, ref) pair.
C1_DuplicateImportIffRecordedPair ==
    /\ \A k \in 1..ProcessedComponents :
           CompleteImport(model.components[k]) =>
               (Emitted(MsgComponentDuplicateImport, OriginComponentCheck(k - 1))
                    <=> RecordedPairBefore(model.components, k))
    /\ \A k \in 1..ProcessedUnits :
           CompleteImport(model.units[k]) =>
               (Emitted(MsgUnitsDuplicateImport, OriginUnitsCheck(k - 1))
                    <=> RecordedPairBefore(model.units, k))

-----------------------------------------------------------------------------
\* C2: when validateModel returns a second time on the same validator with the
\* same model, the error list equals the one of the previous return: nothing of
\* the earlier run remains and nothing differs.
C2_RerunYieldsSameErrors ==
    (AtReturn /\ prevErrors # <<>>) => errors = prevErrors[1]

\* A second run is about to return a list that is not empty.
C2_Witness == AtReturn /\ prevErrors # <<>> /\ errors # <<>> /\ Len(model.components) > 1

-----------------------------------------------------------------------------
(* C3: models without empty names, duplicates and math.                    *)

AllUnits(m) ==
    Range(m.units) \cup UNION {Range(m.components[c].units) : c \in 1..Len(m.components)}

AllVariables(m) == UNION {Range(m.components[c].variables) : c \in 1..Len(m.components)}

Distinct(names) == \A j, k \in 1..Len(names) : j # k => names[j] # names[k]

NoEmptyNames(m) ==
    \A entity \in Range(m.components) \cup AllUnits(m) \cup AllVariables(m) :
        entity.name # Empty

NoDuplicateNames(m) ==
    /\ Distinct(NamesOf(m.components))
    /\ Distinct(NamesOf(m.units))
    /\ \A c \in 1..Len(m.components) :
           /\ Distinct(NamesOf(m.components[c].units))
           /\ Distinct(NamesOf(m.components[c].variables))

NoDuplicateImports(entities) ==
    \A k \in 1..Len(entities) : entities[k].isImport => ~ RecordedPairBefore(entities, k)

NoMath(m) == \A c \in 1..Len(m.components) : m.components[c].math = <<>>

PlainModel(m) ==
    /\ NoEmptyNames(m)
    /\ NoDuplicateNames(m)
    /\ NoDuplicateImports(m.components)
    /\ NoDuplicateImports(m.units)
    /\ NoMath(m)

\* The statement as the specification has it.
C3_Original_EmptyIffModelNamed ==
    (Done /\ PlainModel(model)) => (errors = <<>> <=> model.name # Empty)

\* What else the validator reports of such a model.
VariablesWellFormed(m) ==
    \A c \in 1..Len(m.components) :
        \A v \in Range(m.components[c].variables) :
            /\ v.units # Empty
            /\ v.interfaceType \in {Empty} \cup InterfaceTypes
            /\ \/ v.initialValue = Empty
               \/ v.initialValue \in Range(NamesOf(m.components[c].variables))
               \/ StodConverts(v.initialValue)

UnitsWellFormed(m) ==
    \A u \in AllUnits(m) :
        /\ u.name \notin Range(standardUnitToStringTemp)
        /\ u.unitValidationErrors = <<>>

\* The position of the first of the imports before entities[k] that has the same
\* value of the field as entities[k]; with none, the position past the last.
FirstEarlierImport(entities, k, field(_)) ==
    LET earlier == SelectSeq(SubSeq(entities, 1, k - 1), LAMBDA e : e.isImport)
        same == {j \in 1..Len(earlier) : field(earlier[j]) = field(entities[k])}
    IN  IF same = {} THEN Len(earlier) + 1
        ELSE CHOOSE j \in same : \A other \in same : j <= other

ImportSourceOf(entity) == entity.importSource
ImportReferenceOf(entity) == entity.importReference

ImportsWellFormed(entities) ==
    \A k \in 1..Len(entities) :
        entities[k].isImport =>
            /\ entities[k].importReference # Empty
            /\ entities[k].importSource # Empty
            /\ \/ \A j \in 1..(k - 1) : ~ entities[j].isImport
               \/ FirstEarlierImport(entities, k, ImportSourceOf)
                      # FirstEarlierImport(entities, k, ImportReferenceOf)

\* C3 (amended): for a model without empty names, duplicates and math, whose
\* variables have units, a valid interface and a valid initial value, whose units
\* bear no standard name and have no invalid unit, and whose imports have a ref
\* and an href and pass validateModel's duplicate test, the error list is empty
\* if and only if the model's name is not empty.
C3_EmptyIffModelNamed ==
    (/\ Done
     /\ PlainModel(model)
     /\ VariablesWellFormed(model)
     /\ UnitsWellFormed(model)
     /\ ImportsWellFormed(model.components)
     /\ ImportsWellFormed(model.units))
        => (errors = <<>> <=> model.name # Empty)

\* Such a model, with imports and with an initial value, validated without error.
C3_Witness ==
    /\ Done
    /\ PlainModel(model)
    /\ VariablesWellFormed(model)
    /\ UnitsWellFormed(model)
    /\ ImportsWellFormed(model.components)
    /\ ImportsWellFormed(model.units)
    /\ errors = <<>>
    /\ \/ \E c \in 1..Len(model.components) :
              model.components[c].isImport /\ Len(model.components) >= 2
       \/ \E v \in AllVariables(model) : v.initialValue # Empty

\* Such a model with two imports.
C3_WitnessImports ==
    /\ C3_Witness
    /\ Cardinality({c \in 1..Len(model.components) : model.components[c].isImport}) >= 2

-----------------------------------------------------------------------------
(* C4: the errors of an import without component_ref, units_ref or href.   *)

HasError(kind, msg, subject) ==
    \E n \in ErrorPositions :
        /\ errors[n].kind = kind
        /\ errors[n].desc.msg = msg
        /\ errors[n].subject = subject

ComponentImportReported(k) ==
    LET component == model.components[k]
    IN  /\ component.importReference = Empty
            => HasError("COMPONENT", MsgComponentRef, ComponentSubject(k - 1))
        /\ component.importSource = Empty
            => HasError("IMPORT", MsgComponentHref, ComponentImportSubject(k - 1))

UnitsImportReported(k) ==
    LET units == model.units[k]
    IN  /\ units.importReference = Empty
            => HasError("UNITS", MsgUnitsRef, ModelUnitsSubject(k - 1))
        /\ units.importSource = Empty
            => HasError("IMPORT", MsgUnitsHref, ModelUnitsImportSubject(k - 1))

\* The statement as the claim has it: every imported entity, whatever its name.
C4_Original_EveryImportReported ==
    /\ \A k \in 1..ProcessedComponents :
           model.components[k].isImport => ComponentImportReported(k)
    /\ \A k \in 1..ProcessedUnits :
           model.units[k].isImport => UnitsImportReported(k)

\* C4 (amended): for every imported Component of the model whose name is not
\* empty, validateModel emits a COMPONENT error when its component_ref is empty
\* and an IMPORT error when its href is empty; for every imported Units of the
\* model whose name is not empty, a UNITS error when its units_ref is empty and
\* an IMPORT error when its href is empty.
C4_NamedImportReported ==
    /\ \A k \in 1..ProcessedComponents :
           NamedImport(model.components[k]) => ComponentImportReported(k)
    /\ \A k \in 1..ProcessedUnits :
           NamedImport(model.units[k]) => UnitsImportReported(k)

\* A named imported component and a named imported units, each with neither ref
\* nor href, have been validated.
C4_Witness ==
    /\ Done
    /\ \E k \in 1..Len(model.units) :
           /\ NamedImport(model.units[k])
           /\ model.units[k].importReference = Empty
           /\ model.units[k].importSource = Empty
           /\ HasError("UNITS", MsgUnitsRef, ModelUnitsSubject(k - 1))
           /\ HasError("IMPORT", MsgUnitsHref, ModelUnitsImportSubject(k - 1))

C4_WitnessComponent ==
    /\ Done
    /\ \E k \in 1..Len(model.components) :
           /\ NamedImport(model.components[k])
           /\ model.components[k].importReference = Empty
           /\ model.components[k].importSource = Empty
           /\ HasError("COMPONENT", MsgComponentRef, ComponentSubject(k - 1))
           /\ HasError("IMPORT", MsgComponentHref, ComponentImportSubject(k - 1))

-----------------------------------------------------------------------------
(* C5: the order of the errors.                                            *)

ComponentCheckMessages ==
    {MsgComponentRef, MsgComponentHref, MsgComponentDuplicateImport, MsgComponentDuplicateName}

UnitsCheckMessages ==
    {MsgUnitsRef, MsgUnitsHref, MsgUnitsDuplicateImport, MsgUnitsDuplicateName}

IsComponentCheck(label) == Len(label) = 3 /\ label[2] = "component"
IsUnitsCheck(label) == Len(label) = 3 /\ label[2] = "units"
IsComponent(label) == label[1] = "validateComponent"
IsUnits(label) == label[1] = "validateUnits"

\* The recorded step of each error is one that can have added it.
OriginMatchesError(n) ==
    LET label == origin[n]
        err == errors[n]
    IN  CASE label = OriginModelName ->
                 err.desc.msg = MsgModelName /\ err.subject = ModelSubject
          [] IsComponentCheck(label) ->
                 /\ err.desc.msg \in ComponentCheckMessages
                 /\ err.subject \in {ModelSubject, ComponentSubject(label[3]),
                                     ComponentImportSubject(label[3])}
          [] IsUnitsCheck(label) ->
                 /\ err.desc.msg \in UnitsCheckMessages
                 /\ err.subject \in {ModelSubject, ModelUnitsSubject(label[3]),
                                     ModelUnitsImportSubject(label[3])}
          [] IsComponent(label) ->
                 /\ err.desc.msg \notin ComponentCheckMessages \cup UnitsCheckMessages
                                        \cup {MsgModelName}
                 /\ \/ err.subject \in {NoSubject, ComponentSubject(label[2])}
                    \/ /\ err.subject[1] \in {"units", "variable"}
                       /\ err.subject[Len(err.subject) - 1] = label[2]
          [] IsUnits(label) ->
                 err.kind = "UNITS" /\ err.subject = ModelUnitsSubject(label[2])

\* Model-level checks first, then component 0, component 1, ...
OriginalRank(label) ==
    IF label = OriginModelName \/ IsComponentCheck(label) THEN 0 ELSE 1 + label[2]

\* The statement as the specification has it, on the errors it names.
C5_Original_ModelChecksFirst ==
    \A p, q \in ErrorPositions :
        (/\ p < q
         /\ ~ IsUnits(origin[p]) /\ ~ IsUnitsCheck(origin[p])
         /\ ~ IsUnits(origin[q]) /\ ~ IsUnitsCheck(origin[q]))
            => OriginalRank(origin[p]) <= OriginalRank(origin[q])

\* Name; checks of component 0, component 0; checks of component 1, component 1;
\* ...; checks of units 0, 1, ...; validateUnits of units 0, 1, ...
DiscoveryRank(label) ==
    LET nc == Len(model.components)
        nu == Len(model.units)
    IN  CASE label = OriginModelName -> 0
          [] IsComponentCheck(label) -> 1 + 2 * label[3]
          [] IsComponent(label) -> 2 + 2 * label[2]
          [] IsUnitsCheck(label) -> 1 + 2 * nc + label[3]
          [] IsUnits(label) -> 1 + 2 * nc + nu + label[2]

\* C5 (amended): the errors appear in the order of discovery: the Model name
\* error; then, for each component in turn, the errors of validateModel's own
\* checks of that component (imports, duplicate name) followed by the errors of
\* that component and its sub-entities; then the errors of validateModel's checks
\* of the Model's units in turn; then the errors of each of the Model's units.
C5_DiscoveryOrder ==
    /\ Len(origin) = Len(errors)
    /\ \A n \in ErrorPositions : OriginMatchesError(n)
    /\ \A p, q \in ErrorPositions : p < q => DiscoveryRank(origin[p]) <= DiscoveryRank(origin[q])

\* Errors of every step in one run: the name, a check of a component after an
\* error of an earlier component, a check of units, units.
C5_Witness ==
    /\ Done
    /\ \E p, q, r, t \in ErrorPositions :
           /\ origin[1] = OriginModelName
           /\ p < q /\ q < r /\ r < t
           /\ IsComponent(origin[p])
           /\ IsComponentCheck(origin[q])
           /\ IsUnitsCheck(origin[r])
           /\ IsUnits(origin[t])

-----------------------------------------------------------------------------
(* C6: the initial value of a variable.                                    *)

RECURSIVE DropDigits(_)
DropDigits(s) == IF s # <<>> /\ Head(s) \in Digits THEN DropDigits(Tail(s)) ELSE s

\* The string is a real number: an optional sign, digits with an optional point
\* (at least one digit), an optional exponent, and nothing else.
IsRealNumber(s) ==
    LET unsigned == SkipSign(s)
        afterInt == DropDigits(unsigned)
        hasPoint == afterInt # <<>> /\ Head(afterInt) = "."
        afterFrac == IF hasPoint THEN DropDigits(Tail(afterInt)) ELSE afterInt
        mantissaDigits == Len(unsigned) - Len(afterFrac) - (IF hasPoint THEN 1 ELSE 0)
        exponent == SkipSign(Tail(afterFrac))
    IN  /\ mantissaDigits >= 1
        /\ \/ afterFrac = <<>>
           \/ /\ Head(afterFrac) \in {"e", "E"}
              /\ exponent # <<>>
              /\ DropDigits(exponent) = <<>>

\* C6: a Variable with an initial value gets no 'invalid initial value' error if
\* and only if the value is the name of a variable of the same component or is a
\* real number.
C6_InitialValueErrorIffInvalid ==
    Done =>
        \A c \in 1..Len(model.components) :
            \A v \in 1..Len(model.components[c].variables) :
                LET variable == model.components[c].variables[v]
                IN  variable.initialValue # Empty =>
                        (~ HasError("VARIABLE", MsgInitialValue, VariableSubject(c - 1, v - 1))
                            <=> \/ variable.initialValue
                                       \in Range(NamesOf(model.components[c].variables))
                                \/ IsRealNumber(variable.initialValue))

-----------------------------------------------------------------------------
(* C7: the ci elements of the math.  A node of a tree is named by its path, *)
(* the positions to follow from the root's chain of siblings.              *)

RECURSIVE Paths(_)
Paths(siblings) ==
    UNION {{<<k>>} \cup {<<k>> \o below : below \in Paths(siblings[k].children)} :
              k \in 1..Len(siblings)}

RECURSIVE NodeAt(_, _)
NodeAt(siblings, path) ==
    IF Len(path) = 1 THEN siblings[path[1]]
    ELSE NodeAt(siblings[path[1]].children, Tail(path))

Ancestors(path) == {SubSeq(path, 1, n) : n \in 1..(Len(path) - 1)}

HasTextChild(node) ==
    /\ node.children # <<>>
    /\ node.children[1].type = "text"
    /\ isNotWhitespace(node.children[1].text)

\* A bvar that introduces a bound variable, and the variable's name.
IntroducesBoundVariable(node) ==
    /\ node.type = "bvar"
    /\ node.children # <<>>
    /\ node.children[1].type = "ci"
    /\ HasTextChild(node.children[1])

BoundVariable(node) == node.children[1].children[1].text

\* The names bound by the bvar elements that enclose the node at the path: a
\* bvar above the node, or a bvar of an element above the node (the element a
\* bvar qualifies is its parent).
BoundByEnclosing(root, path) ==
    {BoundVariable(NodeAt(root, a)) :
        a \in {b \in Paths(root) :
                  /\ IntroducesBoundVariable(NodeAt(root, b))
                  /\ \/ b \in Ancestors(path)
                     \/ SubSeq(b, 1, Len(b) - 1) \in Ancestors(path)}}

\* The names bound by the bvar elements of the tree that are not inside a bvar.
BoundAnywhere(root) ==
    {BoundVariable(NodeAt(root, a)) :
        a \in {b \in Paths(root) :
                  /\ IntroducesBoundVariable(NodeAt(root, b))
                  /\ \A above \in Ancestors(b) : NodeAt(root, above).type # "bvar"}}

\* The ci elements with text that are not inside a ci or a cn.
CiLeaves(root) ==
    {p \in Paths(root) :
        /\ NodeAt(root, p).type = "ci"
        /\ HasTextChild(NodeAt(root, p))
        /\ \A above \in Ancestors(p) : NodeAt(root, above).type \notin {"ci", "cn"}}

HasMathRoot(component) ==
    /\ component.math # <<>>
    /\ component.math[1].root # <<>>
    /\ component.math[1].root[1].type = "math"

CiReported(c, t) ==
    \E n \in ErrorPositions :
        /\ errors[n].kind = "MATHML"
        /\ errors[n].desc = [msg |-> MsgCiNotVariable, args |-> <<t, model.components[c].name>>]
        /\ errors[n].subject = ComponentSubject(c - 1)

DeclaredVariables(component) == Range(NamesOf(component.variables))

\* The statement as the specification has it: bound by an enclosing bvar.
C7_Original_CiVariableOrEnclosingBvar ==
    Done =>
        \A c \in 1..Len(model.components) :
            HasMathRoot(model.components[c]) =>
                LET root == model.components[c].math[1].root
                IN  \A p \in CiLeaves(root) :
                        LET t == NodeAt(root, p).children[1].text
                        IN  ~ CiReported(c, t) =>
                                \/ t \in DeclaredVariables(model.components[c])
                                \/ t \in BoundByEnclosing(root, p)

\* C7 (amended): for every ci element with non-whitespace text t that the second
\* pass visits, the pass emits no 'does not correspond with any variable names'
\* error if and only if t is a variable name declared in the host component or t
\* is bound by a bvar element anywhere in the math tree (the list the first pass
\* gathers); a ci whose text is bound only by a bvar elsewhere is not reported.
C7_CiVariableOrGatheredBvar ==
    Done =>
        \A c \in 1..Len(model.components) :
            HasMathRoot(model.components[c]) =>
                LET root == model.components[c].math[1].root
                IN  \A p \in CiLeaves(root) :
                        LET t == NodeAt(root, p).children[1].text
                        IN  ~ CiReported(c, t) <=>
                                \/ t \in DeclaredVariables(model.components[c])
                                \/ t \in BoundAnywhere(root)

\* A ci that is not a variable and is bound only by a bvar elsewhere, unreported.
C7_Witness ==
    /\ Done
    /\ \E c \in 1..Len(model.components) :
           /\ HasMathRoot(model.components[c])
           /\ LET root == model.components[c].math[1].root
              IN  \E p \in CiLeaves(root) :
                      LET t == NodeAt(root, p).children[1].text
                      IN  /\ t \notin DeclaredVariables(model.components[c])
                          /\ t \notin BoundByEnclosing(root, p)
                          /\ t \in BoundAnywhere(root)
                          /\ ~ CiReported(c, t)

-----------------------------------------------------------------------------
(* C8: math whose root is not a math element.                              *)

HasMistypedRoot(component) ==
    /\ component.math # <<>>
    /\ component.math[1].root # <<>>
    /\ component.math[1].root[1].type # "math"

\* The errors of that kind added by validateComponent of component c.
ErrorsOfComponent(c, kind) ==
    {n \in ErrorPositions : origin[n] = OriginComponent(c - 1) /\ errors[n].kind = kind}

\* The statement as the specification has it: one XML error, no MATHML error.
C8_Original_OneXmlError ==
    Done =>
        \A c \in 1..Len(model.components) :
            HasMistypedRoot(model.components[c]) =>
                /\ Cardinality(ErrorsOfComponent(c, "XML")) = 1
                /\ ErrorsOfComponent(c, "MATHML") = {}

\* C8 (amended): when the math of a component parses to a root node whose type is
\* not 'math', validateMath adds the parser's XML errors, if any, without
\* subject, then exactly one XML-kind error with the component as subject (the
\* invalid root type) and no MATHML-kind error, and hands nothing to the MathML
\* DTD validator: neither pass over the tree is made.
C8_OneXmlErrorBesideParseErrors ==
    Done =>
        /\ \A c \in 1..Len(model.components) :
               HasMistypedRoot(model.components[c]) =>
                   LET xml == ErrorsOfComponent(c, "XML")
                       own == {n \in xml : errors[n].subject = ComponentSubject(c - 1)}
                   IN  /\ Cardinality(own) = 1
                       /\ \A n \in own : errors[n].desc.msg = MsgRootType
                       /\ \A n \in xml \ own :
                              /\ errors[n].subject = NoSubject
                              /\ \A o \in own : n < o
                       /\ Cardinality(xml \ own) = Len(model.components[c].math[1].xmlErrors)
                       /\ ErrorsOfComponent(c, "MATHML") = {}
        /\ Len(cleanMathml)
               = Cardinality({c \in 1..Len(model.components) : HasMathRoot(model.components[c])})

\* A mistyped root over a bvar, a ci and a cn, validated with a single XML error.
C8_Witness ==
    /\ Done
    /\ \E c \in 1..Len(model.components) :
           /\ HasMistypedRoot(model.components[c])
           /\ \E p \in Paths(model.components[c].math[1].root) :
                  NodeAt(model.components[c].math[1].root, p).type = "bvar"
           /\ Cardinality(ErrorsOfComponent(c, "XML")) = 1
           /\ cleanMathml = <<>>

-----------------------------------------------------------------------------
(* C9: validation runs to completion.                                      *)

ExitsEarly(component) ==
    /\ component.math # <<>>
    /\ \/ component.math[1].root = <<>>
       \/ component.math[1].root[1].type # "math"

ExpectedCalls ==
    [c \in 1..Len(model.components) |-> <<"validateComponent", c - 1>>]
    \o [u \in 1..Len(model.units) |-> <<"validateUnits", u - 1>>]

\* C9: whatever the math of a component yields, when validateModel returns every
\* component has been passed to validateComponent and every Units of the model
\* to validateUnits, in order, and their errors are in the list.
C9_RunsToCompletion ==
    (AtReturn \/ Done) =>
        /\ calls = ExpectedCalls
        /\ \A c \in 1..Len(model.components) :
               /\ model.components[c].name = Empty
                      => HasError("COMPONENT", MsgComponentName, ComponentSubject(c - 1))
               /\ model.components[c].math # <<>>
                      => ErrorsOfComponent(c, "XML") \cup ErrorsOfComponent(c, "MATHML") # {}
                         \/ HasMathRoot(model.components[c])
        /\ \A u \in 1..Len(model.units) :
               model.units[u].name = Empty
                   => HasError("UNITS", MsgUnitsName, ModelUnitsSubject(u - 1))

\* The math of the first component exits early; a later component with math and
\* the model's units have been validated all the same.
C9_Witness ==
    /\ Done
    /\ Len(model.components) >= 2
    /\ Len(model.units) >= 2
    /\ ExitsEarly(model.components[1])
    /\ ErrorsOfComponent(2, "MATHML") # {}
    /\ \E u \in 1..Len(model.units) :
           /\ model.units[u].name = Empty
           /\ HasError("UNITS", MsgUnitsName, ModelUnitsSubject(u - 1))

-----------------------------------------------------------------------------
(* C10: units named as a standard unit.                                    *)

IsStandardUnitName(name) == \E n \in 1..Len(standardUnitToStringTemp) :
                                standardUnitToStringTemp[n] = name

HasUnitsError(subject) ==
    \E n \in ErrorPositions : errors[n].kind = "UNITS" /\ errors[n].subject = subject

\* C10: every Units of the Model or of a Component that bears a standard unit
\* name has at least one UNITS error with itself as subject.
C10_StandardUnitNameReported ==
    Done =>
        /\ \A u \in 1..Len(model.units) :
               IsStandardUnitName(model.units[u].name)
                   => HasUnitsError(ModelUnitsSubject(u - 1))
        /\ \A c \in 1..Len(model.components) :
               \A u \in 1..Len(model.components[c].units) :
                   IsStandardUnitName(model.components[c].units[u].name)
                       => HasUnitsError(ComponentUnitsSubject(c - 1, u - 1))

\* A Units of the model and a Units of a component named second, both reported.
C10_Witness ==
    /\ Done
    /\ \E u \in 1..Len(model.units) :
           /\ model.units[u].name = s_second
           /\ HasError("UNITS", MsgStandardUnit, ModelUnitsSubject(u - 1))
    /\ \E c \in 1..Len(model.components) :
           \E u \in 1..Len(model.components[c].units) :
               /\ model.components[c].units[u].name = s_second
               /\ HasError("UNITS", MsgStandardUnit, ComponentUnitsSubject(c - 1, u - 1))

-----------------------------------------------------------------------------
(* C11: the error of an entity without a name.                             *)

\* How many errors of this kind and text have this subject.
CountErrors(kind, msg, subject) ==
    Cardinality({n \in ErrorPositions :
                    /\ errors[n].kind = kind
                    /\ errors[n].desc.msg = msg
                    /\ errors[n].subject = subject})

\* The errors about a name in the list, whatever their kind or subject.
NameErrors ==
    {n \in ErrorPositions :
        errors[n].desc.msg \in {MsgModelName, MsgComponentName, MsgUnitsName, MsgVariableName}}

ExpectedNameErrors(name) == IF name = Empty THEN 1 ELSE 0

\* C11: when validateModel has returned, the Model, every Component, every
\* Units of the model or of a component and every Variable has exactly one
\* 'does not have a valid name attribute' error of its kind with itself as
\* subject if its name is empty, and none otherwise.
C11_OneNameErrorIffEmptyName ==
    Done =>
        /\ CountErrors("MODEL", MsgModelName, ModelSubject) = ExpectedNameErrors(model.name)
        /\ \A u \in 1..Len(model.units) :
               CountErrors("UNITS", MsgUnitsName, ModelUnitsSubject(u - 1))
                   = ExpectedNameErrors(model.units[u].name)
        /\ \A c \in 1..Len(model.components) :
               /\ CountErrors("COMPONENT", MsgComponentName, ComponentSubject(c - 1))
                      = ExpectedNameErrors(model.components[c].name)
               /\ \A u \in 1..Len(model.components[c].units) :
                      CountErrors("UNITS", MsgUnitsName, ComponentUnitsSubject(c - 1, u - 1))
                          = ExpectedNameErrors(model.components[c].units[u].name)
               /\ \A v \in 1..Len(model.components[c].variables) :
                      CountErrors("VARIABLE", MsgVariableName, VariableSubject(c - 1, v - 1))
                          = ExpectedNameErrors(model.components[c].variables[v].name)
        /\ Cardinality(NameErrors)
               = ExpectedNameErrors(model.name)
                 + Cardinality({u \in 1..Len(model.units) : model.units[u].name = Empty})
                 + Cardinality({c \in 1..Len(model.components) :
                                   model.components[c].name = Empty})
                 + Cardinality({cu \in UNION {{<<c, u>> : u \in 1..Len(model.components[c].units)}
                                                 : c \in 1..Len(model.components)} :
                                   model.components[cu[1]].units[cu[2]].name = Empty})
                 + Cardinality({cv \in UNION {{<<c, v>> : v \in 1..Len(model.components[c].variables)}
                                                 : c \in 1..Len(model.components)} :
                                   model.components[cv[1]].variables[cv[2]].name = Empty})

\* A component, a variable and a units without a name beside named ones.
C11_Witness ==
    /\ Done
    /\ \E c \in 1..Len(model.components) :
           \E v, w \in 1..Len(model.components[c].variables) :
               /\ model.components[c].variables[v].name = Empty
               /\ model.components[c].variables[w].name # Empty
               /\ CountErrors("VARIABLE", MsgVariableName, VariableSubject(c - 1, v - 1)) = 1
    /\ Cardinality(NameErrors) = 1

-----------------------------------------------------------------------------
(* C12: components or units of the model that share a name.                *)

\* The entity at position k has a name that an earlier entity has.
RepeatsEarlierName(entities, k) ==
    /\ entities[k].name # Empty
    /\ \E j \in 1..(k - 1) : entities[j].name = entities[k].name

\* The errors with this text that validateModel's own checks at this step add.
DuplicateNameErrorsFrom(msg, label) ==
    {n \in ErrorPositions :
        /\ origin[n] = label
        /\ errors[n].desc.msg = msg
        /\ errors[n].kind = "MODEL"
        /\ errors[n].subject = ModelSubject}

\* The errors with this text that tell this name.
DuplicateNameErrorsOf(msg, name) ==
    {n \in ErrorPositions : errors[n].desc.msg = msg /\ errors[n].desc.args[2] = name}

Occurrences(entities, name) ==
    Cardinality({k \in 1..Len(entities) : entities[k].name = name})

\* C12: when validateModel has returned, its check of each component whose
\* non-empty name is the name of an earlier component has added exactly one
\* MODEL error 'multiple components with the name', the check of any other
\* component none; k components of one name give k-1 such errors telling that
\* name; likewise for the units of the model; no such error tells an empty name.
C12_OneDuplicateNameErrorPerRepeat ==
    Done =>
        /\ \A c \in 1..Len(model.components) :
               Cardinality(DuplicateNameErrorsFrom(MsgComponentDuplicateName,
                                                   OriginComponentCheck(c - 1)))
                   = IF RepeatsEarlierName(model.components, c) THEN 1 ELSE 0
        /\ \A u \in 1..Len(model.units) :
               Cardinality(DuplicateNameErrorsFrom(MsgUnitsDuplicateName,
                                                   OriginUnitsCheck(u - 1)))
                   = IF RepeatsEarlierName(model.units, u) THEN 1 ELSE 0
        /\ \A c \in 1..Len(model.components) :
               LET name == model.components[c].name
                   told == Cardinality(DuplicateNameErrorsOf(MsgComponentDuplicateName, name))
               IN  told = IF name = Empty THEN 0
                          ELSE Occurrences(model.components, name) - 1
        /\ \A u \in 1..Len(model.units) :
               LET name == model.units[u].name
                   told == Cardinality(DuplicateNameErrorsOf(MsgUnitsDuplicateName, name))
               IN  told = IF name = Empty THEN 0
                          ELSE Occurrences(model.units, name) - 1
        /\ \A n \in ErrorPositions :
               errors[n].desc.msg \in {MsgComponentDuplicateName, MsgUnitsDuplicateName}
                   => /\ errors[n].kind = "MODEL"
                      /\ \/ IsComponentCheck(origin[n])
                         \/ IsUnitsCheck(origin[n])

\* Three components of one name: two errors.
C12_Witness ==
    /\ Done
    /\ \E c \in 1..Len(model.components) :
           /\ Occurrences(model.components, model.components[c].name) = 3
           /\ Cardinality(DuplicateNameErrorsOf(MsgComponentDuplicateName,
                                                model.components[c].name)) = 2

\* Two units of the model without a name beside two of one name: one error.
C12_WitnessUnits ==
    /\ Done
    /\ Occurrences(model.units, Empty) >= 1
    /\ \E u \in 1..Len(model.units) :
           /\ RepeatsEarlierName(model.units, u)
           /\ Cardinality(DuplicateNameErrorsOf(MsgUnitsDuplicateName, model.units[u].name)) = 1

-----------------------------------------------------------------------------
(* C13: the model is read, not written.                                    *)

\* The submissions to the MathML validator come one per component with a math
\* root, in order: the position of the one of component c.
SubmissionOf(c) ==
    Cardinality({d \in 1..c : HasMathRoot(model.components[d])})

HasUnitsAttribute(node) ==
    \E a \in 1..Len(node.attrs) : AttributeIsType(node.attrs[a], "units")

\* C13: no step of validateModel changes the model: the names, the units and
\* variable lists, the import data and the math of every component are the
\* same before and after; the units attributes are taken off the tree that
\* validateMath parsed, not off the component's math.
C13_ModelUnchanged == [][model' = model]_vars

\* A units attribute was taken off the parsed tree of a component and is still
\* in the component's math when validateModel has returned twice.
C13_Witness ==
    /\ Done
    /\ prevErrors # <<>>
    /\ \E c \in 1..Len(model.components) :
           /\ HasMathRoot(model.components[c])
           /\ \E path \in Paths(model.components[c].math[1].root) :
                  /\ HasUnitsAttribute(NodeAt(model.components[c].math[1].root, path))
                  /\ ~ HasUnitsAttribute(NodeAt(cleanMathml[SubmissionOf(c)], path))

-----------------------------------------------------------------------------
(* C14: variables of the component that the math binds.                    *)

CollisionErrors(c, name) ==
    {n \in ErrorPositions :
        /\ errors[n].kind = "MATHML"
        /\ errors[n].desc.msg = MsgBvarCollision
        /\ errors[n].subject = ComponentSubject(c - 1)
        /\ errors[n].desc.args[2] = name}

\* C14: when validateModel has returned, for every component with a math root
\* and every variable name declared in it that a gathered bvar binds, there is
\* exactly one MATHML error 'as a bvar ci element but it is already a variable
\* name' for that name, however often the name is bound or declared.
C14_OneCollisionErrorPerName ==
    Done =>
        \A c \in 1..Len(model.components) :
            LET component == model.components[c]
            IN  HasMathRoot(component) =>
                    \A name \in DeclaredVariables(component) \ {Empty} :
                        name \in BoundAnywhere(component.math[1].root)
                            => Cardinality(CollisionErrors(c, name)) = 1

-----------------------------------------------------------------------------
(* C15: the tree handed to the MathML validator.                           *)

\* The ci and cn elements that the second pass looks at: those not below a ci
\* or a cn.
Visited(root, path) ==
    /\ NodeAt(root, path).type \in {"ci", "cn"}
    /\ \A above \in Ancestors(path) : NodeAt(root, above).type \notin {"ci", "cn"}

IsCapturedUnits(attribute) ==
    AttributeIsType(attribute, "units") /\ Len(attribute.value) > 0

Submitted(c) == cleanMathml[SubmissionOf(c)]

C15_WitnessNested ==
    /\ Done
    /\ \E c \in 1..Len(model.components) :
           /\ HasMathRoot(model.components[c])
           /\ \E q \in Paths(model.components[c].math[1].root) :
                  /\ ~ Visited(model.components[c].math[1].root, q)
                  /\ NodeAt(Submitted(c), q).type = "ci"
                  /\ \E a \in 1..Len(NodeAt(Submitted(c), q).attrs) :
                         IsCapturedUnits(NodeAt(Submitted(c), q).attrs[a])

-----------------------------------------------------------------------------
(* C16: the attributes of a ci or cn.                                      *)

InvalidAttributeErrors(c) ==
    {n \in ErrorPositions :
        /\ errors[n].kind = "MATHML"
        /\ errors[n].desc.msg = MsgInvalidAttribute
        /\ errors[n].subject = ComponentSubject(c - 1)}

\* The attributes of the visited ci and cn elements that are in the CellML
\* namespace, have a value and are not named units.
InvalidCellmlAttributes(root) ==
    {pa \in UNION {{<<path, a>> : a \in 1..Len(NodeAt(root, path).attrs)} :
                      path \in {p \in Paths(root) : Visited(root, p)}} :
        LET attribute == NodeAt(root, pa[1]).attrs[pa[2]]
        IN  /\ attribute.ns = CellmlNs
            /\ Len(attribute.value) > 0
            /\ attribute.name # "units"}

\* C16: when validateModel has returned, the 'invalid attribute type' errors of
\* a component are one for each attribute of a visited ci or cn that is in the
\* CellML namespace, has a value and is not named units, and no more: an
\* attribute of another namespace or without value gets none.
C16_InvalidAttributeErrorIffCellmlAttribute ==
    Done =>
        \A c \in 1..Len(model.components) :
            HasMathRoot(model.components[c]) =>
                Cardinality(InvalidAttributeErrors(c))
                    = Cardinality(InvalidCellmlAttributes(model.components[c].math[1].root))

-----------------------------------------------------------------------------
(* C17: the order of the errors of one component.                          *)

\* The errors that validateComponent of component c added, in list order.
ComponentErrors(c) ==
    LET at == SelectSeq([n \in 1..Len(errors) |-> n],
                        LAMBDA n : origin[n] = OriginComponent(c - 1))
    IN  [k \in 1..Len(at) |-> errors[at[k]]]

LeafMessages ==
    {MsgCiNotVariable, MsgCnNotNumber, MsgWhitespaceChild, MsgNoChild,
     MsgInvalidAttribute, MsgCnNoUnits, MsgBvarCiNoUnits, MsgUnitsReference}

\* The place of an error in the order of the claim.
ErrorRank(err) ==
    CASE err.kind = "COMPONENT" /\ err.desc.msg = MsgComponentName -> 1
      [] err.kind = "COMPONENT" /\ err.desc.msg = MsgComponentUnitsDuplicate -> 2
      [] err.kind = "UNITS" -> 3
      [] err.kind = "COMPONENT" /\ err.desc.msg = MsgComponentVariableDuplicate -> 4
      [] err.kind = "VARIABLE" -> 5
      [] err.kind = "XML" -> 6
      [] err.kind = "MATHML" /\ err.desc.msg = MsgBvarCollision -> 7
      [] err.kind = "MATHML" /\ err.desc.msg \in LeafMessages -> 8
      [] err.kind = "MATHML" -> 9
      [] OTHER -> 0

\* Document order of two nodes, neither above the other.
RECURSIVE Precedes(_, _)
Precedes(p, q) ==
    IF p = <<>> \/ q = <<>> THEN p = <<>> /\ q # <<>>
    ELSE IF Head(p) # Head(q) THEN Head(p) < Head(q)
    ELSE Precedes(Tail(p), Tail(q))

\* The visited ci and cn elements in document order.
VisitedInOrder(root) ==
    LET visited == {p \in Paths(root) : Visited(root, p)}
        place(p) == Cardinality({q \in visited : Precedes(q, p)}) + 1
    IN  [k \in 1..Cardinality(visited) |-> CHOOSE p \in visited : place(p) = k]

\* The errors of the checks of one ci or cn.
LeafErrors(component, c, root, path) ==
    LET node == NodeAt(root, path)
        parent == NodeAt(root, SubSeq(path, 1, Len(path) - 1))
        variableNames == NonEmpty(NamesOf(component.variables))
        bvarNames == gatherMathBvarVariableNames(root, 1)
    IN  CiCnChildErrors(node, component, ComponentSubject(c - 1), variableNames, bvarNames)
        \o CiCnAttributeErrors(node, ComponentSubject(c - 1))
        \o CiCnUnitsErrors(node, parent.type, component, ComponentSubject(c - 1))

ExpectedLeafErrors(component, c) ==
    IF ~ HasMathRoot(component) THEN <<>>
    ELSE LET root == component.math[1].root
             order == VisitedInOrder(root)
         IN  Flatten([k \in 1..Len(order) |-> LeafErrors(component, c, root, order[k])])

\* The entity an error of a units or a variable of component c is about.
EntityIndex(err, c) ==
    CHOOSE k \in 0..Len(errors) :
        \/ err.subject = ComponentUnitsSubject(c - 1, k)
        \/ err.subject = VariableSubject(c - 1, k)

\* C17: among the errors of one component the order is: the name of the
\* component, the units of one name, the errors of each units in turn, the
\* variables of one name, the errors of each variable in turn, then the math:
\* the parser's errors and the error about the root, the variables that a bvar
\* binds, the errors of the ci and cn elements in document order (an element
\* before all that follows it, the checks of one element together), and last
\* the errors of the MathML validator.
C17_ComponentErrorOrder ==
    Done =>
        \A c \in 1..Len(model.components) :
            LET errs == ComponentErrors(c)
            IN  /\ \A j, k \in 1..Len(errs) :
                       j < k =>
                           /\ ErrorRank(errs[j]) # 0
                           /\ ErrorRank(errs[j]) <= ErrorRank(errs[k])
                           /\ ErrorRank(errs[j]) = ErrorRank(errs[k])
                                  /\ ErrorRank(errs[j]) \in {3, 5}
                                  => EntityIndex(errs[j], c) <= EntityIndex(errs[k], c)
                           /\ ErrorRank(errs[j]) = 6 /\ ErrorRank(errs[k]) = 6
                                  => errs[j].subject = NoSubject
                /\ SelectSeq(errs, LAMBDA err : ErrorRank(err) = 8)
                       = ExpectedLeafErrors(model.components[c], c)

\* A component with errors of units, of variables, of bound variables and of a
\* leaf.
C17_Witness ==
    /\ Done
    /\ \E c \in 1..Len(model.components) :
           LET errs == ComponentErrors(c)
               ranks == {ErrorRank(errs[k]) : k \in 1..Len(errs)}
           IN  /\ {2, 3, 4, 7, 8} \subseteq ranks
               /\ ExpectedLeafErrors(model.components[c], c) # <<>>

\* Errors of leaves at several depths, in document order.
C17_WitnessDepth ==
    /\ Done
    /\ \E c \in 1..Len(model.components) :
           LET leaves == ExpectedLeafErrors(model.components[c], c)
           IN  /\ Len(leaves) >= 4
               /\ \A j, k \in 1..Len(leaves) : j # k => leaves[j] # leaves[k]
               /\ SelectSeq(ComponentErrors(c), LAMBDA err : ErrorRank(err) = 8) = leaves

=============================================================================
